---- MODULE Spec2Model ----
(***************************************************************************)
(* The luac 5.1 chunk decoder of src/undump.rs as a state machine.         *)
(*                                                                         *)
(* undump(data) is modelled step by step: one action per straight-line     *)
(* block of undump, get_function and get_string, with an explicit stack of *)
(* get_function activations.  The byte cursor `p: &[u8]` is the pair       *)
(* (data, pos).  Every guard of the code (ensure!) is a definition of its  *)
(* own, and every read re-checks what the bytes crate asserts, so that a   *)
(* read past the end of the buffer shows as a Panic outcome.               *)
(*                                                                         *)
(* The decoder is driven the way a property test drives it: it decodes a   *)
(* chunk, then decodes one variation of that chunk (a strict prefix, the   *)
(* chunk with bytes appended, or the chunk with one byte replaced).        *)
(*                                                                         *)
(* Target: usize is 64 bits, so no u32 -> usize or u64 -> usize            *)
(* conversion fails and `codelen * 4 + 4` cannot overflow.                 *)
(***************************************************************************)
EXTENDS Integers, Sequences, FiniteSets, TLC

VARIABLES
    data,       \* the buffer handed to undump
    pos,        \* bytes consumed so far: the cursor p is data[pos+1 ..]
    pc,         \* the block of code that runs next
    cont,       \* where the running get_string returns to
    stack,      \* the activations of get_function, outermost first
    str,        \* the value the last get_string returned
    fun,        \* the value the last get_function returned (<<>> or <<f>>)
    result,     \* what undump returned, once pc = "done"
    steps,      \* loop iterations started and get_function calls made
    lastAlloc,  \* the latest Vec::with_capacity / String allocation
    tagpos,     \* offsets at which a constant's type tag was read
    run,        \* 1: decoding the chunk, 2: decoding its variation
    base,       \* which chunk run 1 decodes
    mut,        \* the variation run 2 decodes
    first       \* what run 1 ended with

vars == <<data, pos, pc, cont, stack, str, fun, result, steps, lastAlloc,
          tagpos, run, base, mut, first>>

\* ------------------------------------------------------------------ bounds

\* Nesting depth of the generated chain of prototypes.
MaxDepth == 2
\* How many bytes a variation appends.
MaxExtra == 2

\* ------------------------------------------------------- integer encodings

\* A u32 is a pair, a u64 a 4-tuple, of 16-bit limbs, least significant
\* first (TLC's integers are 32-bit signed).
U32(n) == <<n % 65536, n \div 65536>>

\* Every usize at or above 2^24 is represented by 2^24: usize values are only
\* compared with, or iterated up to, buffer sizes far below that.
Saturated == 256 * 65536

\* u32 -> usize and u64 -> usize (try_into, which cannot fail on this target).
ToUsize(w) ==
    IF w[2] >= 256 \/ \E i \in 3..Len(w) : w[i] # 0
    THEN Saturated
    ELSE w[1] + 65536 * w[2]

Min(a, b) == IF a <= b THEN a ELSE b

\* ------------------------------------------------------------- the cursor

\* Buf::remaining with the cursor at offset p.
Remaining(p) == Len(data) - p

\* Buf::get_u8 at offset p.
GetU8(p) == data[p + 1]

Limb(p) == data[p + 1] + 256 * data[p + 2]

LimbBE(p) == 256 * data[p + 1] + data[p + 2]

\* Faulty variant of GetU32LE: the four bytes taken most significant first.
GetU32LEBigEndian(p) == <<LimbBE(p + 2), LimbBE(p)>>

\* Buf::get_u32_le at offset p.
GetU32LE(p) == <<Limb(p), Limb(p + 2)>>

\* Buf::get_u32 (big-endian) at offset p, as used on the signature.
GetU32(p) == <<LimbBE(p + 2), LimbBE(p)>>

\* u32::to_be_bytes.
ToBeBytes(w) == <<w[2] \div 256, w[2] % 256, w[1] \div 256, w[1] % 256>>

\* Buf::get_u64_le at offset p.
GetU64LE(p) == <<Limb(p), Limb(p + 2), Limb(p + 4), Limb(p + 6)>>

\* Buf::get_f64_le at offset p: the IEEE-754 binary64 fields of the 64 bits,
\* the 52-bit fraction as limbs of 4, 16, 16 and 16 bits, most significant
\* first.
GetF64LE(p) ==
    LET bits == GetU64LE(p)
    IN  [sign |-> bits[4] \div 32768,
         exp  |-> (bits[4] % 32768) \div 16,
         frac |-> <<bits[4] % 16, bits[3], bits[2], bits[1]>>]

\* ----------------------------------------------------- String::from_utf8_lossy

\* U+FFFD REPLACEMENT CHARACTER.
ReplacementChar == 65533

IsCont(b) == b >= 128 /\ b <= 191

\* The text (a sequence of code points) of a byte string, every maximal
\* invalid prefix of a UTF-8 sequence replaced by U+FFFD.
RECURSIVE FromUtf8Lossy(_)
FromUtf8Lossy(bs) ==
    IF bs = <<>> THEN <<>>
    ELSE
    LET n  == Len(bs)
        b1 == bs[1]
        b2 == IF n >= 2 THEN bs[2] ELSE 0
        b3 == IF n >= 3 THEN bs[3] ELSE 0
        b4 == IF n >= 4 THEN bs[4] ELSE 0
        lo2 == IF b1 = 224 THEN 160 ELSE IF b1 = 240 THEN 144 ELSE 128
        hi2 == IF b1 = 237 THEN 159 ELSE IF b1 = 244 THEN 143 ELSE 191
        ok2 == b2 >= lo2 /\ b2 <= hi2
        Rest(k) == FromUtf8Lossy(SubSeq(bs, k + 1, n))
        Bad(k) == <<ReplacementChar>> \o Rest(k)
    IN  IF b1 < 128 THEN <<b1>> \o Rest(1)
        ELSE IF b1 >= 194 /\ b1 <= 223 THEN
            IF IsCont(b2)
            THEN <<(b1 - 192) * 64 + (b2 - 128)>> \o Rest(2)
            ELSE Bad(1)
        ELSE IF b1 >= 224 /\ b1 <= 239 THEN
            IF ~ok2 THEN Bad(1)
            ELSE IF ~IsCont(b3) THEN Bad(2)
            ELSE <<(b1 - 224) * 4096 + (b2 - 128) * 64 + (b3 - 128)>> \o Rest(3)
        ELSE IF b1 >= 240 /\ b1 <= 244 THEN
            IF ~ok2 THEN Bad(1)
            ELSE IF ~IsCont(b3) THEN Bad(2)
            ELSE IF ~IsCont(b4) THEN Bad(3)
            ELSE <<(b1 - 240) * 262144 + (b2 - 128) * 4096
                    + (b3 - 128) * 64 + (b4 - 128)>> \o Rest(4)
        ELSE Bad(1)

\* ------------------------------------------------------------ the records

\* enum Constant.
Nil == [kind |-> "Nil", val |-> 0]
Boolean(b) == [kind |-> "Boolean", val |-> b]
Number(x) == [kind |-> "Number", val |-> x]
String(s) == [kind |-> "String", val |-> s]

\* struct LocVar.
LocVar(varname, startpc, endpc) ==
    [varname |-> varname, startpc |-> startpc, endpc |-> endpc]

\* The locals of one activation of get_function: the fields read so far, the
\* count n of the sequence being read and the iterations i of its loop done.
NewFrame ==
    [source |-> <<>>, line_defined |-> U32(0), last_line_defined |-> U32(0),
     nups |-> 0, num_params |-> 0, is_vararg |-> 0, maxstacksize |-> 0,
     code |-> <<>>, constants |-> <<>>, funs |-> <<>>, lineinfo |-> <<>>,
     locvars |-> <<>>, upvalues |-> <<>>, n |-> 0, i |-> 0]

\* struct Function, assembled from the locals.
Function(fr) ==
    [source |-> fr.source, line_defined |-> fr.line_defined,
     last_line_defined |-> fr.last_line_defined, nups |-> fr.nups,
     num_params |-> fr.num_params, is_vararg |-> fr.is_vararg,
     maxstacksize |-> fr.maxstacksize, code |-> fr.code,
     constants |-> fr.constants, funs |-> fr.funs, lineinfo |-> fr.lineinfo,
     locvars |-> fr.locvars, upvalues |-> fr.upvalues]

\* ----------------------------------------------------------- the outcomes

Running == [tag |-> "Running", msg |-> "", arg |-> 0]
Okay == [tag |-> "Ok", msg |-> "", arg |-> 0]
Err(msg, arg) == [tag |-> "Err", msg |-> msg, arg |-> arg]
\* A panic of the bytes crate: a read or an advance past the end.
Panic(msg) == [tag |-> "Panic", msg |-> msg, arg |-> 0]

\* The abort of handle_alloc_error: the allocator returned no memory.
Abort(msg) == [tag |-> "Abort", msg |-> msg, arg |-> 0]

NoAlloc == [what |-> "none", cap |-> 0, rem |-> 0]
Alloc(what, cap, p) == [what |-> what, cap |-> cap, rem |-> Remaining(p)]

\* The parser's state as one record, and its assignment.
Cur ==
    [pos |-> pos, pc |-> pc, cont |-> cont, stack |-> stack, str |-> str,
     fun |-> fun, result |-> result, steps |-> steps, lastAlloc |-> lastAlloc,
     tagpos |-> tagpos]

Set(s) ==
    /\ pos' = s.pos
    /\ pc' = s.pc
    /\ cont' = s.cont
    /\ stack' = s.stack
    /\ str' = s.str
    /\ fun' = s.fun
    /\ result' = s.result
    /\ steps' = s.steps
    /\ lastAlloc' = s.lastAlloc
    /\ tagpos' = s.tagpos
    /\ UNCHANGED <<data, run, base, mut, first>>

\* `?` and bail!: undump returns r with the cursor at p; every activation
\* unwinds and no tree is returned.
Return(s, r, p) ==
    [s EXCEPT !.result = r, !.pc = "done", !.pos = p, !.stack = <<>>,
              !.fun = <<>>]

Top == stack[Len(stack)]

\* Vec::with_capacity(cap) at offset p, s being the state once the vector is
\* allocated: a capacity of 2^24 elements or more (up to 2^32 - 1 elements of
\* 24 bytes and more each) is one the allocator may refuse, and the process
\* then aborts; a smaller one is allocated.
WithCapacity(s, cap, p) ==
    {s} \cup (IF cap >= Saturated
              THEN {Return(s, Abort("memory allocation failed"), p)}
              ELSE {})

\* s with the innermost activation's locals replaced by fr.
WithTop(s, fr) == [s EXCEPT !.stack = [stack EXCEPT ![Len(stack)] = fr]]

\* -------------------------------------------------------------- the guards

\* ensure!(p.remaining() >= 12, "truncated header")
HeaderAvailable == Remaining(pos) >= 12

\* ensure!(self.remaining() >= 8, "truncated string length")
StringLengthAvailable == Remaining(pos) >= 8

\* ensure!(self.remaining() >= len, "truncated string contents")
StringContentsAvailable(p, len) == Remaining(p) >= len

\* ensure!(self.remaining() >= 16, "truncated function header")
FunctionHeaderAvailable == Remaining(pos) >= 16

\* ensure!(self.remaining() >= codelen * 4 + 4, "truncated function code")
CodeAvailable(p, codelen) == Remaining(p) >= codelen * 4 + 4

\* ensure!(self.remaining() >= 1, "truncated constants")
ConstantTagAvailable == Remaining(pos) >= 1

\* ensure!(self.remaining() >= 1) of Constant::Boolean
BooleanAvailable(p) == Remaining(p) >= 1

\* ensure!(self.remaining() >= 8) of Constant::Number
NumberAvailable(p) == Remaining(p) >= 8

\* ensure!(self.remaining() >= 4, "truncated functions")
FunctionsSizeAvailable == Remaining(pos) >= 4

\* ensure!(self.remaining() >= 4, "truncated debug lineinfo size")
LineinfoSizeAvailable == Remaining(pos) >= 4

\* Faulty variant of LineinfoAvailable: the count taken for a byte length.
LineinfoAvailableBytes(p, sizelineinfo) == Remaining(p) >= sizelineinfo

\* ensure!(self.remaining() >= 4 * sizelineinfo, "truncated debug lineinfo")
LineinfoAvailable(p, sizelineinfo) == Remaining(p) >= 4 * sizelineinfo

\* ensure!(self.remaining() >= 4, "truncated debug locvars size")
LocvarsSizeAvailable == Remaining(pos) >= 4

\* ensure!(self.remaining() >= 8, "truncated debug locvars")
LocvarPcAvailable == Remaining(pos) >= 8

\* ensure!(self.remaining() >= 4, "truncated debug upvalues size")
UpvaluesSizeAvailable == Remaining(pos) >= 4

\* Faulty variant of NothingRemains: trailing bytes are let through.
NothingRemainsUnchecked == TRUE

\* ensure!(!p.has_remaining(), "extraneous bytes ({})", p.remaining())
NothingRemains == ~(Remaining(pos) > 0)

\* The message anyhow gives an ensure! that states none: the condition's
\* source text (written here without anyhow's quotation marks).
ConditionFailed1 == "Condition failed: self.remaining() >= 1"
ConditionFailed8 == "Condition failed: self.remaining() >= 8"

\* ----------------------------------------------------------------- undump

\* b"\x1bLua"
Signature == <<27, 76, 117, 97>>

\* Faulty variant of HeaderBytes: the big-endian flag is the one accepted.
HeaderBytesBigEndian == <<81, 0, 0, 4, 8, 4, 8, 0>>

\* The eight single-byte fields that follow the signature: version, format,
\* endianness, sizeof(int), sizeof(size_t), sizeof(Instruction),
\* sizeof(lua_Number) and the integral flag, with their messages.
HeaderBytes == <<81, 0, 1, 4, 8, 4, 8, 0>>

HeaderMessages ==
    <<"bad luac version", "bad luac format", "bad endianness",
      "bad sizeof(int)", "bad sizeof(size_t)", "bad sizeof(Instruction)",
      "bad sizeof(lua_Number)", "lua_Number must be floating point">>

\* The k-th and later single-byte ensure! of undump, from parser state s.
RECURSIVE CheckHeaderBytes(_, _)
CheckHeaderBytes(s, k) ==
    IF k > Len(HeaderBytes) THEN [s EXCEPT !.pc = "get_function"]
    ELSE IF Remaining(s.pos) < 1 THEN Return(s, Panic("get_u8"), s.pos)
    ELSE IF GetU8(s.pos) # HeaderBytes[k]
    THEN Return(s, Err(HeaderMessages[k], 0), s.pos + 1)
    ELSE CheckHeaderBytes([s EXCEPT !.pos = s.pos + 1], k + 1)

\* undump, up to its call of get_function.
UndumpHeader ==
    /\ pc = "undump"
    /\ Set(IF ~HeaderAvailable
           THEN Return(Cur, Err("truncated header", 0), pos)
           ELSE IF Remaining(pos) < 4
           THEN Return(Cur, Panic("get_u32"), pos)
           ELSE IF ToBeBytes(GetU32(pos)) # Signature
           THEN Return(Cur, Err("bad signature", 0), pos + 4)
           ELSE CheckHeaderBytes([Cur EXCEPT !.pos = pos + 4], 1))

\* undump, after get_function returned.
UndumpFinish ==
    /\ pc = "finish"
    /\ Set(IF ~NothingRemains
           THEN Return(Cur, Err("extraneous bytes", Remaining(pos)), pos)
           ELSE [Cur EXCEPT !.result = Okay, !.pc = "done"])

\* ------------------------------------------------------------- get_string

\* Faulty variant of StringText: the terminator is kept in the text.
StringTextWithTerminator(p, len) ==
    IF len = 0 THEN <<>>
    ELSE FromUtf8Lossy(SubSeq(data, p + 1, p + Min(len, Remaining(p))))

\* The text get_string builds from the len bytes at offset p:
\* from_utf8_lossy(self.take(len - 1).chunk()), or "" when len = 0.
StringText(p, len) ==
    IF len = 0 THEN <<>>
    ELSE FromUtf8Lossy(SubSeq(data, p + 1, p + Min(len - 1, Remaining(p))))

\* get_string, whole; it returns to cont.
GetString ==
    /\ pc = "get_string"
    /\ Set(IF ~StringLengthAvailable
           THEN Return(Cur, Err("truncated string length", 0), pos)
           ELSE IF Remaining(pos) < 8
           THEN Return(Cur, Panic("get_u64_le"), pos)
           ELSE LET len == ToUsize(GetU64LE(pos))
                    p == pos + 8
                IN  IF ~StringContentsAvailable(p, len)
                    THEN Return(Cur, Err("truncated string contents", 0), p)
                    ELSE IF Remaining(p) < len
                    THEN Return(Cur, Panic("advance"), p)
                    ELSE [Cur EXCEPT !.str = StringText(p, len),
                                     !.lastAlloc = Alloc("string", Len(StringText(p, len)), p),
                                     !.pos = p + len,
                                     !.pc = cont])

\* ----------------------------------------------------------- get_function

\* get_function is entered: its locals are fresh and it calls get_string
\* for the source name.
GetFunctionEntry ==
    /\ pc = "get_function"
    /\ Set([Cur EXCEPT !.stack = Append(stack, NewFrame),
                       !.steps = steps + 1,
                       !.pc = "get_string",
                       !.cont = "source"])

\* source is bound; the 16-byte gate, the six scalars, the code count, the
\* code guard and the allocation of code.
FunctionHeader ==
    /\ pc = "source"
    /\ Set(IF ~FunctionHeaderAvailable
           THEN Return(Cur, Err("truncated function header", 0), pos)
           ELSE IF Remaining(pos) < 16
           THEN Return(Cur, Panic("get_u32_le"), pos)
           ELSE LET codelen == ToUsize(GetU32LE(pos + 12))
                    p == pos + 16
                    fr == [Top EXCEPT !.source = str,
                                      !.line_defined = GetU32LE(pos),
                                      !.last_line_defined = GetU32LE(pos + 4),
                                      !.nups = GetU8(pos + 8),
                                      !.num_params = GetU8(pos + 9),
                                      !.is_vararg = GetU8(pos + 10),
                                      !.maxstacksize = GetU8(pos + 11),
                                      !.n = codelen,
                                      !.i = 0]
                IN  IF ~CodeAvailable(p, codelen)
                    THEN Return(Cur, Err("truncated function code", 0), p)
                    ELSE [WithTop(Cur, fr) EXCEPT
                              !.pos = p,
                              !.pc = "code",
                              !.lastAlloc = Alloc("code", codelen, p)])

\* Faulty variant of CodeIter: the instruction is read without advancing the
\* cursor.
CodeIterPeek ==
    /\ pc = "code"
    /\ Top.i < Top.n
    /\ Set(IF Remaining(pos) < 4
           THEN Return([Cur EXCEPT !.steps = steps + 1], Panic("get_u32_le"), pos)
           ELSE [WithTop(Cur, [Top EXCEPT !.code = Append(@, GetU32LE(pos)),
                                          !.i = @ + 1])
                 EXCEPT !.steps = steps + 1])

\* One iteration of the code loop.
CodeIter ==
    /\ pc = "code"
    /\ Top.i < Top.n
    /\ Set(IF Remaining(pos) < 4
           THEN Return([Cur EXCEPT !.steps = steps + 1], Panic("get_u32_le"), pos)
           ELSE [WithTop(Cur, [Top EXCEPT !.code = Append(@, GetU32LE(pos)),
                                          !.i = @ + 1])
                 EXCEPT !.pos = pos + 4, !.steps = steps + 1])

\* The code loop is over: the constants count and the allocation of
\* constants.
ConstantsSize ==
    /\ pc = "code"
    /\ Top.i >= Top.n
    /\ \E s \in
         (IF Remaining(pos) < 4
           THEN {Return(Cur, Panic("get_u32_le"), pos)}
           ELSE LET constlen == ToUsize(GetU32LE(pos))
                    p == pos + 4
                IN  WithCapacity(
                     [WithTop(Cur, [Top EXCEPT !.n = constlen, !.i = 0])
                      EXCEPT !.pos = p,
                             !.pc = "constants",
                             !.lastAlloc = Alloc("constants", constlen, p)],
                     constlen, p)) : Set(s)

\* The match on the tag, the payload at offset p, but for the arm 4 (which
\* calls get_string): the constant built and the offset after it, the failed
\* ensure!, or what the arm `other` of any other tag gives.
MatchTag(ttype, p, other) ==
    CASE ttype = 0 -> [st |-> "ok", c |-> Nil, p |-> p, msg |-> ""]
      [] ttype = 1 ->
            IF ~BooleanAvailable(p)
            THEN [st |-> "err", c |-> Nil, p |-> p, msg |-> ConditionFailed1]
            ELSE IF Remaining(p) < 1
            THEN [st |-> "panic", c |-> Nil, p |-> p, msg |-> "get_u8"]
            ELSE [st |-> "ok", c |-> Boolean(GetU8(p) # 0), p |-> p + 1,
                  msg |-> ""]
      [] ttype = 3 ->
            IF ~NumberAvailable(p)
            THEN [st |-> "err", c |-> Nil, p |-> p, msg |-> ConditionFailed8]
            ELSE IF Remaining(p) < 8
            THEN [st |-> "panic", c |-> Nil, p |-> p, msg |-> "get_f64_le"]
            ELSE [st |-> "ok", c |-> Number(GetF64LE(p)), p |-> p + 8,
                  msg |-> ""]
      [] OTHER -> other

\* Faulty variant of TaggedConstant: an unknown tag is taken for Nil.
TaggedConstantLenient(ttype, p) ==
    MatchTag(ttype, p, [st |-> "ok", c |-> Nil, p |-> p, msg |-> ""])

\* The match as written: `_ => bail!("invalid constant type {}", ttype)`.
TaggedConstant(ttype, p) ==
    MatchTag(ttype, p, [st |-> "invalid", c |-> Nil, p |-> p,
                        msg |-> "invalid constant type"])

\* The tag whose arm calls get_string.
StringTag == 4

\* One iteration of the constants loop, up to the push or to the call of
\* get_string.
ConstantIter ==
    /\ pc = "constants"
    /\ Top.i < Top.n
    /\ LET s == [Cur EXCEPT !.steps = steps + 1]
       IN  Set(IF ~ConstantTagAvailable
               THEN Return(s, Err("truncated constants", 0), pos)
               ELSE IF Remaining(pos) < 1
               THEN Return(s, Panic("get_u8"), pos)
               ELSE LET ttype == GetU8(pos)
                        p == pos + 1
                        t == [s EXCEPT !.tagpos = tagpos \cup {pos}]
                    IN  IF ttype = StringTag
                        THEN [t EXCEPT !.pos = p, !.pc = "get_string",
                                       !.cont = "const_string"]
                        ELSE LET r == TaggedConstant(ttype, p)
                             IN  IF r.st = "err"
                                 THEN Return(t, Err(r.msg, 0), p)
                                 ELSE IF r.st = "panic"
                                 THEN Return(t, Panic(r.msg), p)
                                 ELSE IF r.st = "invalid"
                                 THEN Return(t, Err(r.msg, ttype), p)
                                 ELSE [WithTop(t, [Top EXCEPT
                                           !.constants = Append(@, r.c),
                                           !.i = @ + 1])
                                       EXCEPT !.pos = r.p])

\* get_string returned into the arm 4: the push of Constant::String.
ConstantString ==
    /\ pc = "const_string"
    /\ Set([WithTop(Cur, [Top EXCEPT !.constants = Append(@, String(str)),
                                     !.i = @ + 1])
            EXCEPT !.pc = "constants"])

\* The constants loop is over: the functions count and the allocation of
\* funs.
FunctionsSize ==
    /\ pc = "constants"
    /\ Top.i >= Top.n
    /\ \E s \in
         (IF ~FunctionsSizeAvailable
           THEN {Return(Cur, Err("truncated functions", 0), pos)}
           ELSE IF Remaining(pos) < 4
           THEN {Return(Cur, Panic("get_u32_le"), pos)}
           ELSE LET funlen == ToUsize(GetU32LE(pos))
                    p == pos + 4
                IN  WithCapacity(
                     [WithTop(Cur, [Top EXCEPT !.n = funlen, !.i = 0])
                      EXCEPT !.pos = p,
                             !.pc = "funs",
                             !.lastAlloc = Alloc("funs", funlen, p)],
                     funlen, p)) : Set(s)

\* One iteration of the funs loop: the recursive call.
FunctionIter ==
    /\ pc = "funs"
    /\ Top.i < Top.n
    /\ Set([Cur EXCEPT !.steps = steps + 1, !.pc = "get_function"])

\* The recursive call returned: the push onto funs.
FunctionPush ==
    /\ pc = "fun_push"
    /\ Set([WithTop(Cur, [Top EXCEPT !.funs = Append(@, fun[1]),
                                     !.i = @ + 1])
            EXCEPT !.pc = "funs", !.fun = <<>>])

\* The funs loop is over: the lineinfo count, its guard and the allocation
\* of lineinfo.
LineinfoSize ==
    /\ pc = "funs"
    /\ Top.i >= Top.n
    /\ Set(IF ~LineinfoSizeAvailable
           THEN Return(Cur, Err("truncated debug lineinfo size", 0), pos)
           ELSE IF Remaining(pos) < 4
           THEN Return(Cur, Panic("get_u32_le"), pos)
           ELSE LET sizelineinfo == ToUsize(GetU32LE(pos))
                    p == pos + 4
                IN  IF ~LineinfoAvailable(p, sizelineinfo)
                    THEN Return(Cur, Err("truncated debug lineinfo", 0), p)
                    ELSE [WithTop(Cur, [Top EXCEPT !.n = sizelineinfo,
                                                   !.i = 0])
                          EXCEPT !.pos = p,
                                 !.pc = "lineinfo",
                                 !.lastAlloc = Alloc("lineinfo", sizelineinfo, p)])

\* One iteration of the lineinfo loop.
LineinfoIter ==
    /\ pc = "lineinfo"
    /\ Top.i < Top.n
    /\ Set(IF Remaining(pos) < 4
           THEN Return([Cur EXCEPT !.steps = steps + 1], Panic("get_u32_le"), pos)
           ELSE [WithTop(Cur, [Top EXCEPT !.lineinfo = Append(@, GetU32LE(pos)),
                                          !.i = @ + 1])
                 EXCEPT !.pos = pos + 4, !.steps = steps + 1])

\* The lineinfo loop is over: the locvars count and the allocation of
\* locvars.
LocvarsSize ==
    /\ pc = "lineinfo"
    /\ Top.i >= Top.n
    /\ \E s \in
         (IF ~LocvarsSizeAvailable
           THEN {Return(Cur, Err("truncated debug locvars size", 0), pos)}
           ELSE IF Remaining(pos) < 4
           THEN {Return(Cur, Panic("get_u32_le"), pos)}
           ELSE LET sizelocvars == ToUsize(GetU32LE(pos))
                    p == pos + 4
                IN  WithCapacity(
                     [WithTop(Cur, [Top EXCEPT !.n = sizelocvars, !.i = 0])
                      EXCEPT !.pos = p,
                             !.pc = "locvars",
                             !.lastAlloc = Alloc("locvars", sizelocvars, p)],
                     sizelocvars, p)) : Set(s)

\* One iteration of the locvars loop: the call of get_string for varname.
LocvarIter ==
    /\ pc = "locvars"
    /\ Top.i < Top.n
    /\ Set([Cur EXCEPT !.steps = steps + 1, !.pc = "get_string",
                       !.cont = "locvar_name"])

\* varname is bound: the 8-byte guard, startpc, endpc and the push.
LocvarPush ==
    /\ pc = "locvar_name"
    /\ Set(IF ~LocvarPcAvailable
           THEN Return(Cur, Err("truncated debug locvars", 0), pos)
           ELSE IF Remaining(pos) < 8
           THEN Return(Cur, Panic("get_u32_le"), pos)
           ELSE [WithTop(Cur, [Top EXCEPT
                     !.locvars = Append(@, LocVar(str, GetU32LE(pos),
                                                  GetU32LE(pos + 4))),
                     !.i = @ + 1])
                 EXCEPT !.pos = pos + 8, !.pc = "locvars"])

\* The locvars loop is over: the upvalues count and the allocation of
\* upvalues.
UpvaluesSize ==
    /\ pc = "locvars"
    /\ Top.i >= Top.n
    /\ \E s \in
         (IF ~UpvaluesSizeAvailable
           THEN {Return(Cur, Err("truncated debug upvalues size", 0), pos)}
           ELSE IF Remaining(pos) < 4
           THEN {Return(Cur, Panic("get_u32_le"), pos)}
           ELSE LET sizeupvalues == ToUsize(GetU32LE(pos))
                    p == pos + 4
                IN  WithCapacity(
                     [WithTop(Cur, [Top EXCEPT !.n = sizeupvalues, !.i = 0])
                      EXCEPT !.pos = p,
                             !.pc = "upvalues",
                             !.lastAlloc = Alloc("upvalues", sizeupvalues, p)],
                     sizeupvalues, p)) : Set(s)

\* One iteration of the upvalues loop: the call of get_string.
UpvalueIter ==
    /\ pc = "upvalues"
    /\ Top.i < Top.n
    /\ Set([Cur EXCEPT !.steps = steps + 1, !.pc = "get_string",
                       !.cont = "upvalue_name"])

\* get_string returned: the push onto upvalues.
UpvaluePush ==
    /\ pc = "upvalue_name"
    /\ Set([WithTop(Cur, [Top EXCEPT !.upvalues = Append(@, str),
                                     !.i = @ + 1])
            EXCEPT !.pc = "upvalues"])

\* The upvalues loop is over: the Function is assembled and returned, to the
\* funs loop of the caller or to undump.
FunctionReturn ==
    /\ pc = "upvalues"
    /\ Top.i >= Top.n
    /\ Set([Cur EXCEPT !.fun = <<Function(Top)>>,
                       !.stack = SubSeq(stack, 1, Len(stack) - 1),
                       !.pc = IF Len(stack) > 1 THEN "fun_push" ELSE "finish"])

\* -------------------------------------------------------------- the chunks

\* The chunk of the test (tests::test, return42hello).
ReferenceChunk ==
    <<27, 76, 117, 97, 81, 0, 1, 4, 8, 4, 8, 0, 9, 0, 0, 0,
      0, 0, 0, 0, 64, 119, 97, 116, 46, 108, 117, 97, 0, 0, 0, 0,
      0, 0, 0, 0, 0, 0, 0, 2, 2, 4, 0, 0, 0, 1, 0, 0,
      0, 65, 64, 0, 0, 30, 0, 128, 1, 30, 0, 128, 0, 2, 0, 0,
      0, 3, 0, 0, 0, 0, 0, 0, 69, 64, 4, 6, 0, 0, 0, 0,
      0, 0, 0, 104, 101, 108, 108, 111, 0, 0, 0, 0, 0, 4, 0, 0,
      0, 1, 0, 0, 0, 1, 0, 0, 0, 1, 0, 0, 0, 1, 0, 0,
      0, 0, 0, 0, 0, 0, 0, 0, 0>>

\* 42.0 = (1 + 5/16) * 2^(1028 - 1023).
FortyTwo == [sign |-> 0, exp |-> 1028, frac |-> <<5, 0, 0, 0>>]

\* The tree the test expects of it: "@wat.lua", [1, 16449, 25165854,
\* 8388638], [Number(42.0), String("hello")], [1, 1, 1, 1].
ReferenceTree ==
    [source |-> <<64, 119, 97, 116, 46, 108, 117, 97>>,
     line_defined |-> U32(0), last_line_defined |-> U32(0),
     nups |-> 0, num_params |-> 0, is_vararg |-> 2, maxstacksize |-> 2,
     code |-> <<U32(1), U32(16449), U32(25165854), U32(8388638)>>,
     constants |-> <<Number(FortyTwo), String(<<104, 101, 108, 108, 111>>)>>,
     funs |-> <<>>,
     lineinfo |-> <<U32(1), U32(1), U32(1), U32(1)>>,
     locvars |-> <<>>,
     upvalues |-> <<>>]

\* Further chunks are written out from trees, field by field in the order
\* and the widths get_function reads them.
RECURSIVE Flatten(_)
Flatten(ss) == IF ss = <<>> THEN <<>> ELSE Head(ss) \o Flatten(Tail(ss))

LE16(n) == <<n % 256, n \div 256>>
DumpU32(w) == LE16(w[1]) \o LE16(w[2])
DumpCount(n) == DumpU32(U32(n))
DumpSize(n) == LE16(n) \o <<0, 0, 0, 0, 0, 0>>

\* UTF-8 of a code point below U+0800.
Utf8(cp) == IF cp < 128 THEN <<cp>> ELSE <<192 + (cp \div 64), 128 + (cp % 64)>>

DumpText(s) == Flatten([i \in 1..Len(s) |-> Utf8(s[i])])

\* The empty text is written with length 0, any other with its terminator.
DumpString(s) ==
    IF s = <<>> THEN DumpSize(0)
    ELSE DumpSize(Len(DumpText(s)) + 1) \o DumpText(s) \o <<0>>

DumpF64(x) ==
    LE16(x.frac[4]) \o LE16(x.frac[3]) \o LE16(x.frac[2])
        \o LE16(x.sign * 32768 + x.exp * 16 + x.frac[1])

DumpConstant(c) ==
    CASE c.kind = "Nil" -> <<0>>
      [] c.kind = "Boolean" -> <<1, IF c.val THEN 1 ELSE 0>>
      [] c.kind = "Number" -> <<3>> \o DumpF64(c.val)
      [] c.kind = "String" -> <<4>> \o DumpString(c.val)

DumpLocVar(v) == DumpString(v.varname) \o DumpU32(v.startpc) \o DumpU32(v.endpc)

RECURSIVE DumpFunction(_)
DumpFunction(f) ==
    DumpString(f.source)
        \o DumpU32(f.line_defined) \o DumpU32(f.last_line_defined)
        \o <<f.nups, f.num_params, f.is_vararg, f.maxstacksize>>
        \o DumpCount(Len(f.code))
        \o Flatten([i \in 1..Len(f.code) |-> DumpU32(f.code[i])])
        \o DumpCount(Len(f.constants))
        \o Flatten([i \in 1..Len(f.constants) |-> DumpConstant(f.constants[i])])
        \o DumpCount(Len(f.funs))
        \o Flatten([i \in 1..Len(f.funs) |-> DumpFunction(f.funs[i])])
        \o DumpCount(Len(f.lineinfo))
        \o Flatten([i \in 1..Len(f.lineinfo) |-> DumpU32(f.lineinfo[i])])
        \o DumpCount(Len(f.locvars))
        \o Flatten([i \in 1..Len(f.locvars) |-> DumpLocVar(f.locvars[i])])
        \o DumpCount(Len(f.upvalues))
        \o Flatten([i \in 1..Len(f.upvalues) |-> DumpString(f.upvalues[i])])

EmptyTree == Function(NewFrame)

\* A prototype with every kind of constant, a two-byte character in a
\* string, a local variable and two upvalues, one of them unnamed.
RichTree ==
    [EmptyTree EXCEPT
        !.source = <<61, 63>>,
        !.line_defined = U32(258),
        !.last_line_defined = U32(65536 + 3),
        !.nups = 2, !.num_params = 1, !.is_vararg = 0, !.maxstacksize = 200,
        !.code = <<U32(8388638)>>,
        !.constants = <<Nil, Boolean(TRUE), Boolean(FALSE),
                        Number([sign |-> 1, exp |-> 1023, frac |-> <<8, 0, 0, 1>>]),
                        String(<<233, 33>>)>>,
        !.lineinfo = <<U32(7)>>,
        !.locvars = <<LocVar(<<120>>, U32(0), U32(1))>>,
        !.upvalues = <<<<117>>, <<>>>>]

\* A prototype nested d deep inside prototypes, a constant at every level.
RECURSIVE ChainTree(_)
ChainTree(d) ==
    IF d = 0 THEN [EmptyTree EXCEPT !.constants = <<Boolean(TRUE)>>]
    ELSE [EmptyTree EXCEPT !.constants = <<Nil>>,
                           !.funs = <<ChainTree(d - 1)>>]

ValidHeader == Signature \o HeaderBytes

\* A header of another version and another size_t.
OtherHeader == [ValidHeader EXCEPT ![5] = 82, ![9] = 4]

\* The trees of the chunks run 1 decodes, and the chunks.
Trees == <<ReferenceTree, RichTree, ChainTree(MaxDepth), EmptyTree>>

Chunks ==
    <<ReferenceChunk,
      ValidHeader \o DumpFunction(RichTree),
      ValidHeader \o DumpFunction(ChainTree(MaxDepth)),
      OtherHeader \o DumpFunction(EmptyTree)>>

\* The values a variation replaces a byte by, or appends.
Bytes == {0, 1, 2, 3, 4, 255}

\* -------------------------------------------------------------- the driver

NoRun == [result |-> Running, fun |-> <<>>, len |-> 0, pos |-> 0,
          tagpos |-> {}, steps |-> 0]

Init ==
    /\ base \in 1..Len(Chunks)
    /\ data = Chunks[base]
    /\ run = 1
    /\ mut = [kind |-> "none", k |-> 0, v |-> 0]
    /\ first = NoRun
    /\ pos = 0
    /\ pc = "undump"
    /\ cont = ""
    /\ stack = <<>>
    /\ str = <<>>
    /\ fun = <<>>
    /\ result = Running
    /\ steps = 0
    /\ lastAlloc = NoAlloc
    /\ tagpos = {}

\* undump is called again, on the variation m of the buffer.
Vary(buf, m) ==
    /\ pc = "done"
    /\ run = 1
    /\ data' = buf
    /\ run' = 2
    /\ mut' = m
    /\ first' = [result |-> result, fun |-> fun, len |-> Len(data),
                 pos |-> pos, tagpos |-> tagpos, steps |-> steps]
    /\ pos' = 0
    /\ pc' = "undump"
    /\ cont' = ""
    /\ stack' = <<>>
    /\ str' = <<>>
    /\ fun' = <<>>
    /\ result' = Running
    /\ steps' = 0
    /\ lastAlloc' = NoAlloc
    /\ tagpos' = {}
    /\ UNCHANGED base

\* The buffer cut to its first k bytes.
Truncate ==
    \E k \in 0..(Len(data) - 1) :
        Vary(SubSeq(data, 1, k), [kind |-> "truncate", k |-> k, v |-> 0])

\* The buffer with k bytes v appended.
Extend ==
    \E k \in 1..MaxExtra, v \in Bytes :
        Vary(data \o [i \in 1..k |-> v], [kind |-> "extend", k |-> k, v |-> v])

\* The buffer with the byte at offset k replaced by v.
Replace ==
    \E k \in 0..(Len(data) - 1), v \in Bytes :
        /\ v # data[k + 1]
        /\ Vary([data EXCEPT ![k + 1] = v],
                [kind |-> "replace", k |-> k, v |-> v])

Next ==
    \/ UndumpHeader
    \/ GetFunctionEntry
    \/ GetString
    \/ FunctionHeader
    \/ CodeIter
    \/ ConstantsSize
    \/ ConstantIter
    \/ ConstantString
    \/ FunctionsSize
    \/ FunctionIter
    \/ FunctionPush
    \/ LineinfoSize
    \/ LineinfoIter
    \/ LocvarsSize
    \/ LocvarIter
    \/ LocvarPush
    \/ UpvaluesSize
    \/ UpvalueIter
    \/ UpvaluePush
    \/ FunctionReturn
    \/ UndumpFinish
    \/ Truncate
    \/ Extend
    \/ Replace

Spec == Init /\ [][Next]_vars

\* =============================================================== properties

\* The messages of the checks that fail for want of bytes.
FieldNamingMessages ==
    {"truncated header", "truncated string length",
     "truncated string contents", "truncated function header",
     "truncated function code", "truncated constants", "truncated functions",
     "truncated debug lineinfo size", "truncated debug lineinfo",
     "truncated debug locvars size", "truncated debug locvars",
     "truncated debug upvalues size"}

TruncationMessages ==
    FieldNamingMessages \cup {ConditionFailed1, ConditionFailed8}

Done == pc = "done"

\* Run 2 decodes the variation `kind` of a buffer that run 1 decoded to a tree.
VariationOfDecoded(kind) ==
    run = 2 /\ mut.kind = kind /\ first.result.tag = "Ok"

\* C1 (truncation sensitivity): every strict prefix of a buffer that decodes
\* fails with a truncation error; its decoding never panics, never reads
\* past the prefix and never returns a tree.
C1_TruncationFails ==
    VariationOfDecoded("truncate") =>
        /\ result.tag \in {"Running", "Err"}
        /\ pos <= Len(data)
        /\ Done => /\ result.tag = "Err"
                   /\ result.msg \in TruncationMessages
                   /\ fun = <<>>

\* A prefix that ends inside the payload of a string of the rich chunk.
C1_Witness ==
    /\ VariationOfDecoded("truncate")
    /\ Done
    /\ base = 2
    /\ result.msg = "truncated string contents"
    /\ mut.k > 12

\* C2 (exactness): a tree is returned only with no byte remaining; a buffer
\* that decodes, with k >= 1 bytes appended, is parsed the same way up to its
\* old length and then fails with "extraneous bytes" naming k.
C2_Exactness ==
    /\ result.tag = "Ok" => Done /\ Remaining(pos) = 0
    /\ VariationOfDecoded("extend") /\ Done =>
        /\ result = Err("extraneous bytes", mut.k)
        /\ pos = first.len
        /\ steps = first.steps
        /\ tagpos = first.tagpos
        /\ fun = <<>>

C2_Witness ==
    /\ VariationOfDecoded("extend")
    /\ Done
    /\ mut.k = 1
    /\ result.arg = 1

\* C3 (untrusted-length allocation): no sequence is allocated with a
\* capacity above the number of bytes remaining when it is allocated.
C3_AllocationWithinRemaining ==
    lastAlloc.cap <= lastAlloc.rem

\* C4 (bounds-checked reads): on every buffer, no read or advance goes past
\* the end, and undump always ends with a tree or with an error value (never
\* a panic, never an abort of the process).
C4_ReadsInBounds ==
    /\ result.tag # "Panic"
    /\ pos <= Len(data)
    /\ Done => /\ result.tag \in {"Ok", "Err"}
               /\ result.tag = "Ok" <=> fun # <<>>

\* The header the claim requires: signature 1B 4C 75 61, version 0x51,
\* format 0, endianness 1, sizeof int 4, size_t 8, Instruction 4, number 8,
\* integral flag 0; the field each byte belongs to and each field's error.
RequiredHeader == <<27, 76, 117, 97, 81, 0, 1, 4, 8, 4, 8, 0>>
FieldOfByte == <<1, 1, 1, 1, 2, 3, 4, 5, 6, 7, 8, 9>>
FieldMessages ==
    <<"bad signature", "bad luac version", "bad luac format",
      "bad endianness", "bad sizeof(int)", "bad sizeof(size_t)",
      "bad sizeof(Instruction)", "bad sizeof(lua_Number)",
      "lua_Number must be floating point">>

Mismatches == {k \in 1..12 : data[k] # RequiredHeader[k]}
FirstMismatch == CHOOSE k \in Mismatches : \A j \in Mismatches : k <= j

\* C5 (header rejection): a buffer of 12 bytes or more whose header differs
\* from the required one fails with the error of the first field that
\* differs, and get_function is never called; a shorter buffer fails with
\* "truncated header" and nothing consumed; get_function is called only
\* after the required header.
C5_HeaderRejection ==
    /\ steps >= 1 => Len(data) >= 12 /\ Mismatches = {}
    /\ Done =>
        IF Len(data) < 12
        THEN result = Err("truncated header", 0) /\ pos = 0
        ELSE IF Mismatches # {}
        THEN /\ result = Err(FieldMessages[FieldOfByte[FirstMismatch]], 0)
             /\ steps = 0
             /\ fun = <<>>
        ELSE steps >= 1

\* Three fields differ, the signature first.
C5_Witness ==
    /\ Done
    /\ Len(data) >= 12
    /\ Cardinality(Mismatches) = 3
    /\ result.msg = "bad signature"

\* The length field at the cursor, when it is below 2^24.
LengthIsSmall == \A j \in 4..8 : data[pos + j] = 0
LengthValue == data[pos + 1] + 256 * data[pos + 2] + 65536 * data[pos + 3]

\* C6 (string reader): get_string fails with fewer than 8 bytes left, and
\* with fewer than n bytes left after the little-endian u64 length n; for
\* n = 0 it returns the empty text and has consumed 8 bytes; for n > 0 it
\* returns the text of the first n - 1 payload bytes, whatever the n-th is,
\* and has consumed 8 + n bytes.
C6_StringReader ==
    [][pc = "get_string" =>
        IF Len(data) - pos < 8
        THEN result' = Err("truncated string length", 0) /\ pos' = pos
        ELSE IF ~LengthIsSmall \/ Len(data) - pos - 8 < LengthValue
        THEN result' = Err("truncated string contents", 0)
        ELSE /\ result' = Running
             /\ pc' = cont
             /\ pos' = pos + 8 + LengthValue
             /\ str' = IF LengthValue = 0 THEN <<>>
                       ELSE FromUtf8Lossy(SubSeq(data, pos + 9,
                                                 pos + 8 + LengthValue - 1))
    ]_vars

\* get_string has just returned a text of two characters, one of them of
\* two bytes, and dropped a last byte that is not 0.
C6_Witness ==
    /\ pc = "const_string"
    /\ str = <<233, 33>>
    /\ data[pos] # 0

ValidTags == {0, 1, 3, 4}

\* The constant just pushed by the step from the constants loop to itself.
Pushed == Top'.constants[Len(Top'.constants)]

\* C7 (tag rejection): in a buffer that decodes, a constant's tag replaced by
\* a value outside {0, 1, 3, 4} makes undump fail with "invalid constant
\* type" carrying that value, and no tree; on every buffer a tag outside the
\* set ends the decoding with that error, tag 0 makes Nil from no byte, 1 a
\* Boolean from one byte, 3 a Number from eight bytes and 4 calls the string
\* reader.
C7_TagRejection ==
    /\ [](/\ VariationOfDecoded("replace") /\ Done
             /\ mut.k \in first.tagpos /\ mut.v \notin ValidTags
             => result = Err("invalid constant type", mut.v) /\ fun = <<>>
          /\ \A t \in tagpos :
                data[t + 1] \notin ValidTags =>
                    Done /\ result = Err("invalid constant type", data[t + 1]))
    /\ [][pc = "constants" /\ pos' > pos /\ result'.tag = "Running" =>
            LET ttype == data[pos + 1]
            IN  \/ /\ ttype = 0 /\ pc' = "constants" /\ pos' = pos + 1
                   /\ Pushed = Nil
                \/ /\ ttype = 1 /\ pc' = "constants" /\ pos' = pos + 2
                   /\ Pushed = Boolean(data[pos + 2] # 0)
                \/ /\ ttype = 3 /\ pc' = "constants" /\ pos' = pos + 9
                   /\ Pushed.kind = "Number"
                \/ /\ ttype = 4 /\ pc' = "get_string" /\ pos' = pos + 1
                   /\ cont' = "const_string"
                \/ /\ pc' = "funs" /\ pos' = pos + 4]_vars

\* The tag replaced is that of the constant of the innermost prototype of
\* the chain.
C7_Witness ==
    /\ VariationOfDecoded("replace")
    /\ Done
    /\ base = 3
    /\ mut.v \notin ValidTags
    /\ mut.k \in first.tagpos
    /\ Cardinality({t \in first.tagpos : t < mut.k}) = MaxDepth
    /\ result.tag = "Err"

\* The sequence a loop of get_function is filling.
Filling(fr) ==
    CASE pc = "code" -> fr.code
      [] pc \in {"constants", "const_string"} -> fr.constants
      [] pc \in {"funs", "fun_push"} -> fr.funs
      [] pc = "lineinfo" -> fr.lineinfo
      [] pc \in {"locvars", "locvar_name"} -> fr.locvars
      [] pc \in {"upvalues", "upvalue_name"} -> fr.upvalues
      [] OTHER -> <<>>

\* C8 (decode result): the valid header followed by a serialized prototype
\* decodes to exactly the tree of its fields, read in order, integers
\* little-endian, with nothing remaining; the chunk of the test decodes to
\* the tree the test states; and every loop fills its sequence with exactly
\* the count read before it.
C8_DecodeResult ==
    /\ run = 1 /\ Done /\ base \in 1..3 =>
        /\ result = Okay
        /\ fun = <<Trees[base]>>
        /\ Remaining(pos) = 0
    /\ stack # <<>> /\ pc \notin {"get_string", "get_function", "source"} =>
        /\ Len(Filling(Top)) = Top.i
        /\ Top.i <= Top.n

\* The chunk of the test is decoded.
C8_Witness ==
    /\ run = 1
    /\ Done
    /\ base = 1
    /\ result = Okay
    /\ fun[1].code = <<U32(1), U32(16449), U32(25165854), U32(8388638)>>

\* C9 (truncation errors name the field): every error of a check for
\* remaining bytes carries a message naming the truncated field.
C9_TruncationNamesField ==
    Done /\ result.tag = "Err" /\ result.msg \in TruncationMessages =>
        result.msg \in FieldNamingMessages

\* A ranking of the parser's states: 8 for every byte left, plus the rank of
\* the block that runs next.
Rank ==
    CASE pc = "done" -> 0
      [] pc \in {"get_string", "undump", "source", "code", "constants",
                 "lineinfo", "locvar_name"} -> 1
      [] pc \in {"get_function", "const_string", "locvars"} -> 2
      [] pc = "funs" -> 3
      [] pc \in {"fun_push", "finish"} -> 4
      [] pc = "upvalues" -> 5
      [] pc = "upvalue_name" -> 6

Measure == 8 * Remaining(pos) + Rank

\* C10 (termination): every step of a decoding lowers the ranking, which is
\* never negative, so the decoding ends; the loop iterations and calls of
\* get_function made, and the nesting of activations, never exceed the
\* length of the buffer.
C10_Termination ==
    /\ [](/\ steps <= Len(data)
          /\ Len(stack) <= Len(data)
          /\ Measure >= 0)
    /\ [][run' = run => Measure' < Measure]_vars

\* The loop of the innermost prototype of the chain is running.
C10_Witness ==
    /\ Len(stack) = MaxDepth + 1
    /\ pc = "constants"
    /\ Top.i = 1
    /\ run = 1

====
